---- MODULE Spec2Model ----
(***************************************************************************)
(* A model of annoQL's app.py: the assignment resolver, the progress       *)
(* tracker, the batch selector, the submission writer and the session      *)
(* gate, as one state machine over the output log and the clients'         *)
(* sessions.                                                               *)
(*                                                                         *)
(* Python strings are sequences of one-character strings, so that strip,   *)
(* split, join, isdigit, sorting and the CSV reader's type inference are    *)
(* computed on characters rather than assumed.  None and the empty string  *)
(* are both the empty sequence: the code only tests them for truth.        *)
(***************************************************************************)
EXTENDS Integers, Sequences, FiniteSets, TLC

\* ------------------------------------------------------------------------
\* Bounds of the model
\* ------------------------------------------------------------------------

\* The log is model-checked up to this many lines (header line included).
MaxLogLines == 3

\* A submitted payload carries at most this many items.
MaxPayload == 2

\* ------------------------------------------------------------------------
\* Characters and strings
\* ------------------------------------------------------------------------

\* The characters in use, in code point order (Python compares strings by
\* code point).
Alphabet ==
    << " ", ",", ".", "0", "1", "2", "3", "4", "5", "6", "7", "8", "9", ";", "N", "_",
       "a", "b", "c", "d", "e", "f", "g", "h", "i", "j", "k", "l", "m",
       "n", "o", "p", "q", "r", "s", "t", "u", "v", "w", "x", "y", "z" >>

Digits == {"0", "1", "2", "3", "4", "5", "6", "7", "8", "9"}

\* ord(ch), up to the code points left out
OrdTable == [ch \in {Alphabet[i] : i \in DOMAIN Alphabet} |->
                CHOOSE i \in DOMAIN Alphabet : Alphabet[i] = ch]

Ord(ch) == OrdTable[ch]

DigitVal(ch) == Ord(ch) - Ord("0")

\* s < t in Python's string order.
RECURSIVE StrLess(_, _)
StrLess(s, t) ==
    IF t = <<>> THEN FALSE
    ELSE IF s = <<>> THEN TRUE
    ELSE IF Head(s) = Head(t) THEN StrLess(Tail(s), Tail(t))
    ELSE Ord(Head(s)) < Ord(Head(t))

RECURSIVE LStrip(_)
LStrip(s) == IF s # <<>> /\ Head(s) = " " THEN LStrip(Tail(s)) ELSE s

RECURSIVE RStrip(_)
RStrip(s) ==
    IF s # <<>> /\ s[Len(s)] = " " THEN RStrip(SubSeq(s, 1, Len(s) - 1)) ELSE s

\* str.strip()
Strip(s) == RStrip(LStrip(s))

\* str.replace(a, b) for single characters
Replace(s, a, b) == [i \in DOMAIN s |-> IF s[i] = a THEN b ELSE s[i]]

\* str.split(sep) for a single-character separator: "a,,b" gives
\* <<"a", "", "b">> and "" gives <<"">>.
RECURSIVE Split(_, _)
Split(s, sep) ==
    IF \A i \in DOMAIN s : s[i] # sep THEN << s >>
    ELSE LET k == CHOOSE i \in DOMAIN s :
                      s[i] = sep /\ \A j \in 1..(i - 1) : s[j] # sep
         IN  << SubSeq(s, 1, k - 1) >> \o Split(SubSeq(s, k + 1, Len(s)), sep)

\* sep.join(parts)
RECURSIVE Join(_, _)
Join(parts, sep) ==
    IF parts = <<>> THEN <<>>
    ELSE IF Len(parts) = 1 THEN parts[1]
    ELSE parts[1] \o sep \o Join(Tail(parts), sep)

\* str.isdigit(): non-empty and digits only
IsDigit(s) == s # <<>> /\ \A i \in DOMAIN s : s[i] \in Digits

\* int(s) for a string of digits
RECURSIVE ParseInt(_)
ParseInt(s) ==
    IF s = <<>> THEN 0
    ELSE 10 * ParseInt(SubSeq(s, 1, Len(s) - 1)) + DigitVal(s[Len(s)])

\* str(n) for n >= 0
RECURSIVE IntStr(_)
IntStr(n) ==
    IF n < 10 THEN << Alphabet[Ord("0") + n] >>
    ELSE IntStr(n \div 10) \o << Alphabet[Ord("0") + (n % 10)] >>

\* sorted(set of strings)
RECURSIVE SortedStrs(_)
SortedStrs(S) ==
    IF S = {} THEN <<>>
    ELSE LET m == CHOOSE x \in S : \A y \in S : y = x \/ StrLess(x, y)
         IN  << m >> \o SortedStrs(S \ {m})

SeqRange(s) == {s[i] : i \in DOMAIN s}

IsPrefix(s, t) == Len(s) <= Len(t) /\ SubSeq(t, 1, Len(s)) = s

\* ------------------------------------------------------------------------
\* String literals of the program
\* ------------------------------------------------------------------------

S_timestamp == << "t", "i", "m", "e", "s", "t", "a", "m", "p" >>

S_coder_id == << "c", "o", "d", "e", "r", "_", "i", "d" >>

S_media_type == << "m", "e", "d", "i", "a", "_", "t", "y", "p", "e" >>

S_item_id == << "i", "t", "e", "m", "_", "i", "d" >>

S_source == << "s", "o", "u", "r", "c", "e" >>

S_description == << "d", "e", "s", "c", "r", "i", "p", "t", "i", "o", "n" >>

S_comments == << "c", "o", "m", "m", "e", "n", "t", "s" >>

S_item_ids == << "i", "t", "e", "m", "_", "i", "d", "s" >>

S_prompt == << "p", "r", "o", "m", "p", "t" >>

\* the prefixes of the flattened answer columns
S_item_ == << "i", "t", "e", "m", "_" >>

S_page_ == << "p", "a", "g", "e", "_" >>

\* str(float('nan'))
S_nan == << "n", "a", "n" >>

S_null == << "n", "u", "l", "l" >>

\* str(None)
S_None == << "N", "o", "n", "e" >>

\* MEDIA_TYPE's default
S_image == << "i", "m", "a", "g", "e" >>

\* ------------------------------------------------------------------------
\* pandas.read_csv and astype(str)
\*
\* A CSV file is the sequence of its lines, a line the sequence of its cells
\* (the csv module quotes what needs quoting, so a cell is read back as it
\* was written).  A file that does not exist, or is empty, has no lines.
\* The cells of the model are empty, digit strings, decimals or words other
\* than the boolean words.
\* ------------------------------------------------------------------------

\* read_csv(path): blank lines are skipped, the first other line names the
\* columns, short rows are padded with missing values.  A file with no line
\* to take the columns from, or a row longer than the header, raises.
PdReadCsv(lines) ==
    LET nb == SelectSeq(lines, LAMBDA l : l # <<>>)
    IN  IF nb = <<>> \/ \E i \in 2..Len(nb) : Len(nb[i]) > Len(nb[1])
        THEN [ok |-> FALSE, columns |-> <<>>, rows |-> <<>>]
        ELSE [ok |-> TRUE,
              columns |-> nb[1],
              rows |-> [i \in 1..(Len(nb) - 1) |->
                          [k \in 1..Len(nb[1]) |->
                              IF k <= Len(nb[i + 1]) THEN nb[i + 1][k] ELSE <<>>]]]

\* name in df.columns
HasColumn(df, name) == \E k \in DOMAIN df.columns : df.columns[k] = name

\* the position of df[name]: the first column so named
ColumnIndex(df, name) ==
    CHOOSE k \in DOMAIN df.columns :
        df.columns[k] = name /\ \A j \in 1..(k - 1) : df.columns[j] # name

\* the raw cells of df[name]
PdCells(df, name) == [i \in DOMAIN df.rows |-> df.rows[i][ColumnIndex(df, name)]]

\* the cells read_csv takes for a missing value
PdIsNA(cell) == cell = <<>> \/ cell = S_nan \/ cell = S_null

PdIsInt(cell) == IsDigit(cell)

\* digits "." digits
PdIsFloat(cell) ==
    \E k \in DOMAIN cell :
        /\ cell[k] = "."
        /\ IsDigit(SubSeq(cell, 1, k - 1))
        /\ IsDigit(SubSeq(cell, k + 1, Len(cell)))

\* the dtype read_csv infers for a column
PdDtype(cells) ==
    LET vals == {cells[i] : i \in {j \in DOMAIN cells : ~PdIsNA(cells[j])}}
        anyNA == \E i \in DOMAIN cells : PdIsNA(cells[i])
    IN  IF \A v \in vals : PdIsInt(v)
        THEN (IF anyNA \/ cells = <<>> THEN "float64" ELSE "int64")
        ELSE IF \A v \in vals : PdIsInt(v) \/ PdIsFloat(v) THEN "float64"
        ELSE "object"

RECURSIVE StripTrailingZeros(_)
StripTrailingZeros(s) ==
    IF s # <<>> /\ s[Len(s)] = "0"
    THEN StripTrailingZeros(SubSeq(s, 1, Len(s) - 1))
    ELSE s

\* str(float(cell)) for a digit string or a short decimal
FloatStr(cell) ==
    LET k  == IF PdIsInt(cell) THEN Len(cell) + 1
              ELSE CHOOSE i \in DOMAIN cell : cell[i] = "."
        ip == SubSeq(cell, 1, k - 1)
        fp == StripTrailingZeros(SubSeq(cell, k + 1, Len(cell)))
    IN  IntStr(ParseInt(ip)) \o << "." >> \o (IF fp = <<>> THEN << "0" >> ELSE fp)

\* str(value) of a cell read into a column of the given dtype
PdStr(dtype, cell) ==
    IF PdIsNA(cell) THEN S_nan
    ELSE IF dtype = "int64" THEN IntStr(ParseInt(cell))
    ELSE IF dtype = "float64" THEN FloatStr(cell)
    ELSE cell

\* df[name].astype(str)
PdAsStr(df, name) ==
    LET cells == PdCells(df, name)
        dtype == PdDtype(cells)
    IN  [i \in DOMAIN cells |-> PdStr(dtype, cells[i])]

\* The dtype of the rows df.iterrows() yields: a row is one Series, so
\* numeric columns of different dtypes are upcast to float64.
IterrowsDtype(df, name) ==
    LET own    == PdDtype(PdCells(df, name))
        dtypes == {PdDtype([i \in DOMAIN df.rows |-> df.rows[i][k]]) :
                      k \in DOMAIN df.columns}
    IN  IF "object" \in dtypes THEN own
        ELSE IF "float64" \in dtypes THEN "float64"
        ELSE own

\* str(r[name]) for the rows r of df.iterrows()
IterrowsStr(df, name) ==
    LET cells == PdCells(df, name)
        dtype == IterrowsDtype(df, name)
    IN  [i \in DOMAIN cells |-> PdStr(dtype, cells[i])]

\* ------------------------------------------------------------------------
\* Dictionaries and JSON values
\* ------------------------------------------------------------------------

\* d.get(k, default): a dict is a function on its keys
Get(d, k, default) == IF k \in DOMAIN d THEN d[k] ELSE default

\* d[k] = v
Put(d, k, v) == [x \in DOMAIN d \cup {k} |-> IF x = k THEN v ELSE d[x]]

EmptyDict == [x \in {} |-> <<>>]

\* A JSON answer is a string or a list of strings.
JStr(s) == [list |-> FALSE, v |-> s]

JList(l) == [list |-> TRUE, v |-> l]

\* ------------------------------------------------------------------------
\* State
\* ------------------------------------------------------------------------

VARIABLES
    CODER_MODE,       \* "pseudonym" or "free_entry"
    SHUFFLE,          \* shuffle_items
    ALLOW_REPEAT,     \* allow_repeat
    BATCH_SIZE,       \* batch_size
    items_df,         \* the catalog as loaded: a sequence of rows (dicts)
    coders_lookup,    \* the roster's coder ids (pseudonym mode)
    assignments_map,  \* coder id -> set of item ids
    assign_csv,       \* the lines of the assignments file (none: no such file)
    coders_csv,       \* the lines of coders.csv (none: no such file)
    session,          \* client -> session["coder_id"], <<>> when unset
    log,              \* the lines of OUTPUT_CSV
    resp              \* the last request and its response

vars == << CODER_MODE, SHUFFLE, ALLOW_REPEAT, BATCH_SIZE, items_df, coders_lookup,
           assignments_map, assign_csv, coders_csv, session, log, resp >>

\* what is loaded once, when the process starts
config == << CODER_MODE, SHUFFLE, ALLOW_REPEAT, BATCH_SIZE, items_df, coders_lookup,
             assignments_map, assign_csv, coders_csv >>

\* The browsers talking to the server, each with its own session cookie.
Clients == {"c1"}

\* the query parameter n clients give /annotate (<<>>: none)
NInputs == { <<>>, << "0" >>, << "2" >>, << "x" >> }

MEDIA_TYPE == S_image

\* questions.json: one item-scoped and one page-scoped question
QUESTIONS ==
    << [id |-> << "q", "1" >>, applies_to |-> "item"],
       [id |-> << "p", "1" >>, applies_to |-> "page"] >>

\* ------------------------------------------------------------------------
\* Helpers of app.py
\* ------------------------------------------------------------------------

\* split_ids_field(s)
split_ids_field(s) ==
    IF Strip(s) = <<>> THEN {}
    ELSE LET parts == Split(Replace(s, ";", ","), ",")
         IN  {Strip(parts[i]) : i \in {j \in DOMAIN parts : Strip(parts[j]) # <<>>}}

\* The loop of load_assignments_map over the rows of the assignments file:
\* each row overwrites its coder's entry.
RECURSIVE AssignRows(_, _, _, _)
AssignRows(mapping, coders, ids, i) ==
    IF i > Len(coders) THEN mapping
    ELSE AssignRows(Put(mapping, Strip(coders[i]), split_ids_field(ids[i])),
                    coders, ids, i + 1)

\* The loop over the rows of coders.csv: a non-empty set is merged in.
RECURSIVE MergeRows(_, _, _, _)
MergeRows(mapping, coders, ids, i) ==
    IF i > Len(coders) THEN mapping
    ELSE LET coder == Strip(coders[i])
             s     == split_ids_field(ids[i])
         IN  MergeRows(IF s # {} THEN Put(mapping, coder, Get(mapping, coder, {}) \cup s)
                       ELSE mapping,
                       coders, ids, i + 1)

\* load_assignments_map(), given the lines of the assignments file and of
\* coders.csv (no lines: no such file, or ASSIGN_FILE not configured)
load_assignments_map(assignFile, codersFile) ==
    LET df  == PdReadCsv(assignFile)
        m1  == IF assignFile # <<>> /\ df.ok
                  /\ HasColumn(df, S_coder_id) /\ HasColumn(df, S_item_ids)
               THEN AssignRows(EmptyDict, IterrowsStr(df, S_coder_id),
                               IterrowsStr(df, S_item_ids), 1)
               ELSE EmptyDict
        dfc == PdReadCsv(codersFile)
    IN  IF codersFile # <<>> /\ dfc.ok
           /\ HasColumn(dfc, S_coder_id) /\ HasColumn(dfc, S_item_ids)
        THEN MergeRows(m1, IterrowsStr(dfc, S_coder_id), IterrowsStr(dfc, S_item_ids), 1)
        ELSE m1

\* get_completed_item_ids_for(coder_id), reading the lines of OUTPUT_CSV
get_completed_item_ids_for(lines, coder_id) ==
    IF lines = <<>> THEN {}
    ELSE LET df == PdReadCsv(lines)
         IN  IF ~df.ok THEN {}
             ELSE IF ~HasColumn(df, S_coder_id) \/ ~HasColumn(df, S_item_id) THEN {}
             ELSE LET coders == PdAsStr(df, S_coder_id)
                      items  == PdAsStr(df, S_item_id)
                  IN  {items[i] : i \in {j \in DOMAIN coders : coders[j] = coder_id}}

\* SelectWork without the restriction to the assigned items
SelectWorkUnrestricted(df, lines, coder_id, allowed_item_ids) ==
    LET completed == get_completed_item_ids_for(lines, coder_id)
    IN  IF ~ALLOW_REPEAT /\ completed # {}
        THEN SelectSeq(df, LAMBDA r : r[S_item_id] \notin completed)
        ELSE df

\* The rows of the catalog select_next_group keeps, in catalog order.
SelectWork(df, lines, coder_id, allowed_item_ids) ==
    LET completed == get_completed_item_ids_for(lines, coder_id)
        w1 == IF allowed_item_ids # {}
              THEN SelectSeq(df, LAMBDA r : r[S_item_id] \in allowed_item_ids)
              ELSE df
    IN  IF ~ALLOW_REPEAT /\ completed # {}
        THEN SelectSeq(w1, LAMBDA r : r[S_item_id] \notin completed)
        ELSE w1

\* The orders work.sample(frac=1) can leave n rows in.
Perms(n) == {p \in [1..n -> 1..n] : \A i, j \in 1..n : p[i] = p[j] => i = j}

Identity(n) == [i \in 1..n |-> i]

\* The orders the rows can be in when select_next_group groups them.
ShuffleOrders(n) == IF SHUFFLE THEN Perms(n) ELSE {Identity(n)}

\* SelectFrom without the grouping: every kept row is returned
SelectFromUngrouped(work, perm) ==
    IF work = <<>> THEN [found |-> FALSE, item_id |-> <<>>, group |-> <<>>]
    ELSE LET shuffled == [i \in DOMAIN work |-> work[perm[i]]]
         IN  [found |-> TRUE, item_id |-> shuffled[1][S_item_id], group |-> shuffled]

\* What select_next_group returns once the kept rows are in work and the
\* shuffle has put them in the order perm.  groupby sorts its keys, so the
\* first group is that of the least item id; a group keeps its rows' order.
SelectFrom(work, perm) ==
    IF work = <<>> THEN [found |-> FALSE, item_id |-> <<>>, group |-> <<>>]
    ELSE LET shuffled == [i \in DOMAIN work |-> work[perm[i]]]
             ids      == {work[i][S_item_id] : i \in DOMAIN work}
             first    == CHOOSE x \in ids : \A y \in ids : y = x \/ StrLess(x, y)
         IN  [found |-> TRUE, item_id |-> first,
              group |-> SelectSeq(shuffled, LAMBDA r : r[S_item_id] = first)]

\* select_next_group(df, coder_id, allowed_item_ids), reading the lines of
\* OUTPUT_CSV
select_next_group(df, lines, coder_id, allowed_item_ids, perm) ==
    SelectFrom(SelectWork(df, lines, coder_id, allowed_item_ids), perm)

\* items_df as the module's top level leaves it: 'prompt' renamed when there
\* is no 'description', item_id cast to str.
load_items(itemsFile) ==
    LET df0  == PdReadCsv(itemsFile)
        cols == IF ~HasColumn(df0, S_description)
                THEN [k \in DOMAIN df0.columns |->
                         IF df0.columns[k] = S_prompt THEN S_description
                         ELSE df0.columns[k]]
                ELSE df0.columns
        df   == [df0 EXCEPT !.columns = cols]
    IN  [i \in DOMAIN df.rows |->
            [c \in SeqRange(cols) |->
                IF c = S_item_id THEN PdAsStr(df, c)[i] ELSE PdCells(df, c)[i]]]

\* coders_lookup as the module's top level leaves it
load_coders_lookup(mode, codersFile) ==
    IF mode = "pseudonym" /\ codersFile # <<>>
    THEN LET df == PdReadCsv(codersFile)
         IN  IF HasColumn(df, S_coder_id) THEN SeqRange(PdAsStr(df, S_coder_id)) ELSE {}
    ELSE {}

\* allowed_ids_for(coder_id): the empty set stands for None
allowed_ids_for(coder_id) == Get(assignments_map, coder_id, {})

\* ------------------------------------------------------------------------
\* Routes
\* ------------------------------------------------------------------------

\* A request (its route, the client sending it, the coder id or the body it
\* sends) and the response
\* (the status code and which page or body it is).
Response(cl, op, arg, status, kind) ==
    [cl |-> cl, op |-> op, arg |-> arg, status |-> status, kind |-> kind,
     items |-> <<>>]

\* render_template("annotate.html", items=items, ...): the page of a batch
BatchPage(cl, items) ==
    [Response(cl, "annotate", <<>>, 200, "batch") EXCEPT !.items = items]

\* home(), GET /
HomeGet(cl) ==
    /\ resp' = IF CODER_MODE = "free_entry"
               THEN Response(cl, "home_get", <<>>, 200, "login_form")
               ELSE Response(cl, "home_get", <<>>, 200, "info")
    /\ UNCHANGED << config, session, log >>

\* home(), POST / with the form field coder_id (<<>>: no such field)
HomePost(cl, form) ==
    IF CODER_MODE = "free_entry"
    THEN LET coder_id == Strip(form)
         IN  IF coder_id = <<>>
             THEN /\ resp' = Response(cl, "home_post", form, 400, "coder_required")
                  /\ UNCHANGED << config, session, log >>
             ELSE /\ session' = [session EXCEPT ![cl] = coder_id]
                  /\ resp' = Response(cl, "home_post", form, 302, "redirect_annotate")
                  /\ UNCHANGED << config, log >>
    ELSE /\ resp' = Response(cl, "home_post", form, 200, "info")
         /\ UNCHANGED << config, session, log >>

\* pseudonym_entry without the check against the roster
pseudonymEntryNoRoster(cl, coder_id) ==
    /\ coder_id # <<>>
    /\ IF CODER_MODE # "pseudonym"
       THEN /\ resp' = Response(cl, "pseudonym_entry", coder_id, 400, "not_pseudonym")
            /\ UNCHANGED << config, session, log >>
       ELSE /\ session' = [session EXCEPT ![cl] = coder_id]
            /\ resp' = Response(cl, "pseudonym_entry", coder_id, 302, "redirect_annotate")
            /\ UNCHANGED << config, log >>

\* pseudonym_entry(coder_id), GET /<coder_id>
pseudonym_entry(cl, coder_id) ==
    /\ coder_id # <<>>
    /\ IF CODER_MODE # "pseudonym"
       THEN /\ resp' = Response(cl, "pseudonym_entry", coder_id, 400, "not_pseudonym")
            /\ UNCHANGED << config, session, log >>
       ELSE IF coders_lookup # {} /\ coder_id \notin coders_lookup
       THEN /\ resp' = Response(cl, "pseudonym_entry", coder_id, 403, "unauthorized")
            /\ UNCHANGED << config, session, log >>
       ELSE /\ session' = [session EXCEPT ![cl] = coder_id]
            /\ resp' = Response(cl, "pseudonym_entry", coder_id, 302, "redirect_annotate")
            /\ UNCHANGED << config, log >>

\* group.head(n)
HeadRows(group, n) == SubSeq(group, 1, IF n < Len(group) THEN n ELSE Len(group))

\* annotate(), GET /annotate, with the query parameter n (<<>>: none) and
\* the order the shuffle leaves the kept rows in
annotate(cl) ==
    LET coder_id == session[cl]
        allowed  == allowed_ids_for(coder_id)
        work     == SelectWork(items_df, log, coder_id, allowed)
    IN  IF coder_id = <<>>
        THEN /\ resp' = Response(cl, "annotate", <<>>, 302, "redirect_home")
             /\ UNCHANGED << config, session, log >>
        ELSE \E n_override \in NInputs, perm \in ShuffleOrders(Len(work)) :
               LET batch_n == IF n_override # <<>> /\ IsDigit(n_override)
                              THEN ParseInt(n_override) ELSE BATCH_SIZE
                   sel     == SelectFrom(work, perm)
                   items   == HeadRows(sel.group, batch_n)
               IN  IF ~sel.found \/ sel.group = <<>>
                   THEN /\ resp' = Response(cl, "annotate", <<>>, 200, "no_more")
                        /\ UNCHANGED << config, session, log >>
                   ELSE /\ resp' = BatchPage(cl, items)
                        /\ UNCHANGED << config, session, log >>

\* FlattenAnswer joining a list with ";"
FlattenAnswerSemicolon(answers, qid) ==
    LET val == Get(answers, qid, JStr(<<>>))
    IN  IF val.list THEN Join(val.v, << ";" >>) ELSE val.v

\* The value submit() writes for question qid: a list is joined with ",".
FlattenAnswer(answers, qid) ==
    LET val == Get(answers, qid, JStr(<<>>))
    IN  IF val.list THEN Join(val.v, << "," >>) ELSE val.v

\* The loops of submit() over QUESTIONS, from question i on.
RECURSIVE FlattenQuestions(_, _, _, _, _)
FlattenQuestions(base, scope, prefix, answers, i) ==
    IF i > Len(QUESTIONS) THEN base
    ELSE FlattenQuestions(
             IF QUESTIONS[i].applies_to = scope
             THEN Put(base, prefix \o QUESTIONS[i].id,
                      FlattenAnswer(answers, QUESTIONS[i].id))
             ELSE base,
             scope, prefix, answers, i + 1)

\* The row submit() builds for one item of the payload.
BuildRow(coder_id, timestamp, it, page_answers, comments) ==
    LET item_row == Get(it, "item_row", EmptyDict)
        answers  == Get(it, "answers", EmptyDict)
        base  == (S_timestamp :> timestamp) @@ (S_coder_id :> coder_id)
                 @@ (S_media_type :> MEDIA_TYPE)
                 @@ (S_item_id :> Get(item_row, S_item_id, S_None))
                 @@ (S_source :> Get(item_row, S_source, <<>>))
                 @@ (S_description :> Get(item_row, S_description, <<>>))
        withItem == FlattenQuestions(base, "item", S_item_, answers, 1)
        withPage == FlattenQuestions(withItem, "page", S_page_, page_answers, 1)
    IN  Put(withPage, S_comments, comments)

\* The rows of one submission
BuildRows(coder_id, timestamp, data) ==
    LET items_payload == Get(data, "items", <<>>)
    IN  [i \in DOMAIN items_payload |->
            BuildRow(coder_id, timestamp, items_payload[i],
                     Get(data, "page_answers", EmptyDict),
                     Strip(Get(data, "comments", <<>>)))]

\* fieldnames = sorted({k for row in rows for k in row.keys()})
Fieldnames(rows) == SortedStrs(UNION {DOMAIN rows[i] : i \in DOMAIN rows})

\* WriteCsv opening the file to write rather than to append
WriteCsvRewrite(lines, rows) ==
    LET fieldnames == Fieldnames(rows)
    IN  << fieldnames >>
        \o [i \in DOMAIN rows |->
               [k \in DOMAIN fieldnames |-> Get(rows[i], fieldnames[k], <<>>)]]

\* What csv.DictWriter appends to the file: the header when the file is new,
\* then one line per row.
WriteCsv(lines, rows) ==
    LET fieldnames == Fieldnames(rows)
        new_file   == lines = <<>>
    IN  lines \o (IF new_file THEN << fieldnames >> ELSE <<>>)
              \o [i \in DOMAIN rows |->
                     [k \in DOMAIN fieldnames |-> Get(rows[i], fieldnames[k], <<>>)]]

\* submit without the check of the session
submitUngated(cl, data, timestamp) ==
    LET coder_id == session[cl]
        rows     == BuildRows(coder_id, timestamp, data)
        written  == WriteCsv(log, rows)
    IN  /\ Len(log) + (IF log = <<>> THEN 1 ELSE 0) + Len(Get(data, "items", <<>>))
              <= MaxLogLines
        /\ log' = written
        /\ resp' = Response(cl, "submit", data, 200, "success")
        /\ UNCHANGED << config, session >>

\* submit(), POST /submit with the JSON body data at time timestamp
submit(cl, data, timestamp) ==
    LET coder_id == session[cl]
        rows     == BuildRows(coder_id, timestamp, data)
        written  == WriteCsv(log, rows)
    IN  IF coder_id = <<>>
        THEN /\ resp' = Response(cl, "submit", data, 400, "no_coder")
             /\ UNCHANGED << config, session, log >>
        ELSE /\ Len(log) + (IF log = <<>> THEN 1 ELSE 0) + Len(Get(data, "items", <<>>))
                   <= MaxLogLines
             /\ log' = written
             /\ resp' = Response(cl, "submit", data, 200, "success")
             /\ UNCHANGED << config, session >>

\* ------------------------------------------------------------------------
\* The files a deployment starts from, and the requests clients send
\* ------------------------------------------------------------------------

\* items.csv: item a has two rows
ItemsA ==
    << << S_item_id, S_source, S_description >>,
       << << "a" >>, << "s" >>, << "d" >> >>,
       << << "a" >>, << "t" >>, <<>> >> >>

\* items.csv with the legacy column and a numbered item
ItemsB ==
    << << S_item_id, S_source, S_prompt >>,
       << << "0", "1" >>, << "s" >>, << "d" >> >>,
       << << "b" >>, << "t" >>, << "e" >> >> >>

ItemsFiles == {ItemsA, ItemsB}

\* coders.csv without assignments
CodersPlain == << << S_coder_id >>, << << "a" >> >>, << << "b" >> >> >>

\* coders.csv with an item_ids column, empty for coder b
CodersWithIds ==
    << << S_coder_id, S_item_ids >>,
       << << "a" >>, << "b", ";", " ", "0", "1" >> >>,
       << << "b" >>, <<>> >> >>

\* the dedicated assignments file
AssignA == << << S_coder_id, S_item_ids >>, << << "a" >>, << "b" >> >> >>

\* (assignments file, coders.csv); no lines: no such file
PeopleFiles == { << <<>>, <<>> >>, << AssignA, CodersPlain >>, << <<>>, CodersWithIds >> }

\* what clients type as a coder id
CoderInputs == { <<>>, << " ", "a" >>, << "b" >> }

Timestamps == { << "t", "1" >> }

Q1 == QUESTIONS[1].id

P1 == QUESTIONS[2].id

\* the answer maps the front end builds for an item: a string, a list
AnswerInputs ==
    << Q1 :> JStr(<< "a" >>), Q1 :> JList(<< << "x" >>, << "y" >> >>) >>

PageAnswerInputs == { P1 :> JList(<< << "x" >>, << "y" >> >>) }

CommentInputs == { << " ", "o", "k" >> }

\* sequences over S of length at most n
RECURSIVE SeqsUpTo(_, _)
SeqsUpTo(S, n) ==
    IF n = 0 THEN { <<>> }
    ELSE LET shorter == SeqsUpTo(S, n - 1)
         IN  shorter \cup {Append(q, x) : q \in {r \in shorter : Len(r) = n - 1}, x \in S}

\* the items of a payload: a row of the catalog as the page rendered it,
\* with the answers given to it
ItemInputs ==
    {[item_row |-> items_df[i], answers |-> AnswerInputs[i]] : i \in DOMAIN items_df}

\* the JSON bodies clients post to /submit
Payloads ==
    {[items |-> its, page_answers |-> pa, comments |-> c] :
        its \in SeqsUpTo(ItemInputs, MaxPayload),
        pa \in PageAnswerInputs, c \in CommentInputs}

\* ------------------------------------------------------------------------
\* Specification
\* ------------------------------------------------------------------------

\* config.yaml and the files it names.  The two coder modes differ in how a
\* session is established only, so pseudonym mode is taken with one catalog
\* and one setting of the selection flags.
Deployments ==
    {[mode |-> "free_entry", shuffle |-> s, repeat |-> r, items |-> i, people |-> p] :
        s \in BOOLEAN, r \in BOOLEAN, i \in ItemsFiles, p \in PeopleFiles}
    \cup
    {[mode |-> "pseudonym", shuffle |-> TRUE, repeat |-> FALSE, items |-> ItemsA,
      people |-> p] : p \in PeopleFiles}

Init ==
    /\ \E d \in Deployments :
          /\ CODER_MODE = d.mode
          /\ SHUFFLE = d.shuffle
          /\ ALLOW_REPEAT = d.repeat
          /\ BATCH_SIZE = 1
          /\ items_df = load_items(d.items)
          /\ assign_csv = d.people[1]
          /\ coders_csv = d.people[2]
          /\ assignments_map = load_assignments_map(d.people[1], d.people[2])
          /\ coders_lookup = load_coders_lookup(d.mode, d.people[2])
    /\ session = [cl \in Clients |-> <<>>]
    /\ log = <<>>
    /\ resp = Response("c1", "none", <<>>, 0, "none")

Next ==
    \/ \E cl \in Clients : HomeGet(cl)
    \/ \E cl \in Clients, form \in CoderInputs : HomePost(cl, form)
    \/ \E cl \in Clients, coder_id \in CoderInputs : pseudonym_entry(cl, coder_id)
    \/ \E cl \in Clients : annotate(cl)
    \/ \E cl \in Clients, data \in Payloads, ts \in Timestamps : submit(cl, data, ts)

Spec == Init /\ [][Next]_vars

\* ------------------------------------------------------------------------
\* Properties
\* ------------------------------------------------------------------------

\* the coder ids the properties range over: x never logs in and is in no file
Coders == { << "a" >>, << "b" >>, << " ", "a" >>, << "x" >> }

\* The columns of a submitted row, in the order of the sorted field names.
RowHeader ==
    << S_coder_id, S_comments, S_description, S_item_id, << "i", "t", "e", "m", "_", "q", "1" >>,
       S_media_type, << "p", "a", "g", "e", "_", "p", "1" >>, S_source, S_timestamp >>

\* the cell of a submitted row in the column name
Field(line, name) == line[CHOOSE k \in DOMAIN RowHeader : RowHeader[k] = name]

\* The submitted rows in the log: the first submission writes the header
\* line before any row, so they are the lines after the first.
LogRows == IF log = <<>> THEN <<>> ELSE Tail(log)

\* the item ids of the rows coder c submitted
LoggedItems(c) ==
    {Field(LogRows[i], S_item_id) :
        i \in {j \in DOMAIN LogRows : Field(LogRows[j], S_coder_id) = c}}

\* the item ids select_next_group can return for coder c in this state
Selectable(c) ==
    LET work == SelectWork(items_df, log, c, allowed_ids_for(c))
    IN  {SelectFrom(work, perm).item_id : perm \in ShuffleOrders(Len(work))} \ { <<>> }

\* C1: with allow-repeat disabled, once the log holds a row with coder_id c
\* and item_id i, select_next_group does not return i for c.
C1_LoggedItemNotServedAgain ==
    ~ALLOW_REPEAT => \A c \in Coders : LoggedItems(c) \cap Selectable(c) = {}

\* C2: for a coder with a non-empty assignment set, select_next_group returns
\* an item of that set (and rows of that set) or (None, None).
C2_WithinAssignment ==
    \A c \in Coders :
        allowed_ids_for(c) # {} =>
            LET work == SelectWork(items_df, log, c, allowed_ids_for(c))
            IN  \A perm \in ShuffleOrders(Len(work)) :
                    LET sel == SelectFrom(work, perm)
                    IN  IF sel.found
                        THEN /\ sel.item_id \in allowed_ids_for(c)
                             /\ \A i \in DOMAIN sel.group :
                                    sel.group[i][S_item_id] \in allowed_ids_for(c)
                        ELSE sel.item_id = <<>> /\ sel.group = <<>>

\* C2's case: a restricted coder who has rows in the log is offered an item
\* while the catalog has an item outside the assignment that the coder has
\* not done.
C2_Witness ==
    \E c \in Coders :
        /\ allowed_ids_for(c) # {}
        /\ LoggedItems(c) # {}
        /\ Selectable(c) # {}
        /\ \E i \in DOMAIN items_df :
              /\ items_df[i][S_item_id] \notin allowed_ids_for(c)
              /\ items_df[i][S_item_id] \notin LoggedItems(c)

\* a line naming the coder_id and item_id columns
IsHeaderLine(line) == S_coder_id \in SeqRange(line) /\ S_item_id \in SeqRange(line)

\* C3: after any sequence of submissions the log has exactly one header row,
\* at the top, naming the coder_id and item_id columns, whatever the payloads
\* (a first submission with no items included).
C3_OneHeaderAtTop ==
    log # <<>> =>
        /\ IsHeaderLine(log[1])
        /\ \A i \in 2..Len(log) : ~IsHeaderLine(log[i])

\* what the row of an item with these answers must hold for q1
ExpectedItemAnswer(answers) ==
    IF answers = Q1 :> JStr(<< "a" >>) THEN << "a" >>
    ELSE IF answers = Q1 :> JList(<< << "x" >>, << "y" >> >>) THEN << "x", ",", "y" >>
    ELSE <<>>

\* C4: a submission appends one row per item of the payload, each with
\* item_q1 from the item's own answers and page_p1 from the page answers,
\* lists joined with ","; page_p1 and comments are the same on all its rows.
C4_RowsOfSubmission ==
    [][ (resp'.op = "submit" /\ resp'.status = 200) =>
          LET data  == resp'.arg
              n     == Len(data.items)
              first == Len(log) + (IF log = <<>> THEN 1 ELSE 0)
          IN  /\ Len(log') = first + n
              /\ \A i \in 1..n :
                    LET line == log'[first + i]
                    IN  /\ Field(line, S_item_id) = data.items[i].item_row[S_item_id]
                        /\ Field(line, S_coder_id) = session[resp'.cl]
                        /\ Field(line, S_item_ \o Q1)
                               = ExpectedItemAnswer(data.items[i].answers)
                        /\ Field(line, S_page_ \o P1) = << "x", ",", "y" >>
                        /\ Field(line, S_page_ \o P1) = Field(log'[first + 1], S_page_ \o P1)
                        /\ Field(line, S_comments) = Field(log'[first + 1], S_comments)
      ]_vars

\* C4's case: a submission of two items whose answers differ, one a list
C4_Witness ==
    /\ resp.op = "submit" /\ resp.status = 200
    /\ Len(resp.arg.items) = 2
    /\ resp.arg.items[1].answers # resp.arg.items[2].answers
    /\ \E i \in 1..2 : resp.arg.items[i].answers = Q1 :> JList(<< << "x" >>, << "y" >> >>)
    /\ Len(log) = 3

\* the catalog rows left for coder c by the assignment and the progress
Survivors(c) ==
    {i \in DOMAIN items_df :
        /\ allowed_ids_for(c) = {} \/ items_df[i][S_item_id] \in allowed_ids_for(c)
        /\ ALLOW_REPEAT \/ items_df[i][S_item_id] \notin get_completed_item_ids_for(log, c)}

\* C5: select_next_group returns (None, None) when no catalog row survives
\* the filters, and /annotate then answers "no more items", not an error;
\* when a row survives it returns a non-empty group of rows of the item
\* returned.
C5_NoneIffNothingLeft ==
    /\ \A c \in Coders :
          LET work == SelectWork(items_df, log, c, allowed_ids_for(c))
          IN  \A perm \in ShuffleOrders(Len(work)) :
                  LET sel == SelectFrom(work, perm)
                  IN  IF Survivors(c) = {}
                      THEN ~sel.found /\ sel.item_id = <<>> /\ sel.group = <<>>
                      ELSE /\ sel.found
                           /\ sel.group # <<>>
                           /\ \A i \in DOMAIN sel.group :
                                  sel.group[i][S_item_id] = sel.item_id
    /\ (resp.op = "annotate" /\ session[resp.cl] # <<>>) =>
          /\ resp.status = 200
          /\ resp.kind = (IF Survivors(session[resp.cl]) = {} THEN "no_more" ELSE "batch")

\* C5's case: a restricted coder who has done the assigned items is told
\* there are no more, while the catalog has other items.
C5_Witness ==
    /\ resp.op = "annotate" /\ resp.kind = "no_more"
    /\ allowed_ids_for(session[resp.cl]) # {}
    /\ get_completed_item_ids_for(log, session[resp.cl]) # {}
    /\ \E i \in DOMAIN items_df :
          items_df[i][S_item_id] \notin get_completed_item_ids_for(log, session[resp.cl])

\* C6: without a session /annotate redirects to / and /submit answers 400 and
\* leaves the log as it is; only a POST to / with a coder id that is not
\* empty once trimmed (free_entry) or an accepted pseudonym entry sets the
\* session; an empty coder id is answered 400 and leaves the session as it is.
C6_SessionGate ==
    [][ LET cl == resp'.cl
        IN  /\ (resp'.op = "annotate" /\ session[cl] = <<>>) =>
                  /\ resp'.status = 302 /\ resp'.kind = "redirect_home"
                  /\ UNCHANGED << session, log >>
            /\ (resp'.op = "annotate" /\ resp'.kind # "redirect_home") => session[cl] # <<>>
            /\ (resp'.op = "submit" /\ session[cl] = <<>>) =>
                  /\ resp'.status = 400 /\ resp'.kind = "no_coder"
                  /\ UNCHANGED << session, log >>
            /\ log' # log => session[cl] # <<>>
            /\ session' # session =>
                  /\ session'[cl] # <<>>
                  /\ session'[cl] = (IF resp'.op = "home_post" THEN Strip(resp'.arg)
                                     ELSE resp'.arg)
                  /\ resp'.status = 302
                  /\ \/ resp'.op = "home_post" /\ CODER_MODE = "free_entry"
                     \/ resp'.op = "pseudonym_entry" /\ CODER_MODE = "pseudonym"
            /\ (resp'.op = "home_post" /\ CODER_MODE = "free_entry"
                    /\ Strip(resp'.arg) = <<>>) =>
                  /\ resp'.status = 400
                  /\ UNCHANGED << session, log >>
      ]_vars

\* C6's case: a /submit without a session was answered 400
C6_Witness ==
    /\ resp.op = "submit" /\ resp.status = 400
    /\ Len(resp.arg.items) > 0
    /\ session[resp.cl] = <<>>
    /\ log = <<>>

\* C7: GET /<coder_id> answers 400 outside pseudonym mode and 403 for a coder
\* id missing from a loaded roster, and leaves the session as it is; else it
\* binds the session.  In pseudonym mode with a loaded roster the session's
\* coder is absent or on the roster, and so is the coder of every logged row.
C7_RosterGate ==
    /\ [] ((CODER_MODE = "pseudonym" /\ coders_lookup # {}) =>
              /\ \A cl \in Clients : session[cl] = <<>> \/ session[cl] \in coders_lookup
              /\ \A i \in DOMAIN LogRows : Field(LogRows[i], S_coder_id) \in coders_lookup)
    /\ [][ resp'.op = "pseudonym_entry" =>
              IF CODER_MODE # "pseudonym"
              THEN resp'.status = 400 /\ session' = session
              ELSE IF coders_lookup # {} /\ resp'.arg \notin coders_lookup
              THEN resp'.status = 403 /\ session' = session
              ELSE resp'.status = 302
                   /\ session' = [session EXCEPT ![resp'.cl] = resp'.arg]
         ]_vars

\* C7's case: with a roster loaded, a coder off the roster was refused after
\* a coder on the roster had submitted rows
C7_Witness ==
    /\ CODER_MODE = "pseudonym" /\ coders_lookup # {}
    /\ resp.op = "pseudonym_entry" /\ resp.status = 403
    /\ resp.arg \notin coders_lookup
    /\ \E cl \in Clients : session[cl] \in coders_lookup
    /\ LogRows # <<>>

\* C8: every operation leaves the log with its former content as a prefix,
\* and only a /submit with a session extends it.
C8_AppendOnly ==
    [][ /\ IsPrefix(log, log')
        /\ log' # log =>
              /\ resp'.op = "submit" /\ resp'.status = 200
              /\ session[resp'.cl] # <<>>
      ]_vars

\* C8's case: a second submission appended to the rows of the first
C8_Witness ==
    /\ resp.op = "submit" /\ resp.status = 200
    /\ Len(resp.arg.items) = 1
    /\ Len(log) = 3

\* the rows of a file that list coder c
ListedRows(file, c) ==
    LET df == PdReadCsv(file)
    IN  IF file = <<>> \/ ~df.ok \/ ~HasColumn(df, S_coder_id) \/ ~HasColumn(df, S_item_ids)
        THEN {}
        ELSE {i \in DOMAIN df.rows : Strip(PdCells(df, S_coder_id)[i]) = c}

\* c is in neither file, or every row listing c has an empty item_ids field
NothingAssigned(c) ==
    /\ \A i \in ListedRows(assign_csv, c) :
          Strip(PdCells(PdReadCsv(assign_csv), S_item_ids)[i]) = <<>>
    /\ \A i \in ListedRows(coders_csv, c) :
          Strip(PdCells(PdReadCsv(coders_csv), S_item_ids)[i]) = <<>>

\* C9: a coder in no file, or listed with an empty item_ids field only, is
\* unrestricted: select_next_group keeps every catalog row the progress does
\* not exclude.
C9_EmptyFieldUnrestricted ==
    \A c \in Coders :
        NothingAssigned(c) =>
            /\ allowed_ids_for(c) = {}
            /\ SelectWork(items_df, log, c, allowed_ids_for(c))
                   = SelectWork(items_df, log, c, {})

\* the item rows a submission's payload carries
SubmittedRows(data) ==
    LET items_payload == Get(data, "items", <<>>)
    IN  [i \in DOMAIN items_payload |-> Get(items_payload[i], "item_row", EmptyDict)]

\* a coder was served a batch and the next request submits its rows
ServedThenSubmitted ==
    /\ resp.op = "annotate" /\ resp.kind = "batch"
    /\ resp'.op = "submit" /\ resp'.status = 200
    /\ SubmittedRows(resp'.arg) = resp.items

\* C10: with allow-repeat disabled, a coder who annotates and then submits
\* the rows served is not served the item id of these rows again, and every
\* such round leaves fewer item ids to serve, so that the coder is served
\* each eligible item id at most once and reaches "no more items" after at
\* most as many submissions as there are eligible item ids.
C10_ServedAtMostOnce ==
    [][ (~ALLOW_REPEAT /\ ServedThenSubmitted) =>
            LET c == session[resp.cl]
            IN  /\ \A i \in DOMAIN resp.items :
                       resp.items[i][S_item_id] \notin Selectable(c)'
                /\ Cardinality(Selectable(c)') < Cardinality(Selectable(c)) ]_vars

====
